---------------------------- MODULE Spec2Model ----------------------------
(***************************************************************************)
(* Model of libs/libc/modlib/modlib_symbols.c: the symbol name reader, the *)
(* indexed symbol reader, the symbol value resolver and the export table   *)
(* builder / teardown of the loadable-module library.                      *)
(*                                                                         *)
(* Conventions.  File offsets and buffer indices are 0-based as in the C   *)
(* code; sequences are 1-based, so byte k of the file is file[k + 1].      *)
(* A pointer is 0 (NULL) or the index of an object in heap.  Return values *)
(* are integers: OK, or a negated errno.                                   *)
(***************************************************************************)
EXTENDS Integers, Sequences, FiniteSets, TLC

VARIABLES
    file,       \* the module image: sequence of bytes (loadinfo->filelen = Len)
    iobuffer,   \* loadinfo->iobuffer, Len(iobuffer) = loadinfo->buflen
    bufincr,    \* CONFIG_MODLIB_BUFFERINCR (fixed for a build)
    heap,       \* allocator objects: arrays of symtab_s and strdup'ed names
    exports,    \* modp->modinfo.exports  (pointer)
    nexports,   \* modp->modinfo.nexports
    exported,   \* loadinfo->exported     (pointer)
    registry,   \* loaded modules, newest first
    deps,       \* dependency edges <<importer, exporter>> recorded so far
    call,       \* the last call: operation, inputs, return value, trace
    crashed,    \* the program stopped inside undefined behaviour
    shdr,       \* loadinfo->shdr: section i is shdr[i + 1], e_shnum = Len
    symtabidx,  \* loadinfo->symtabidx
    strtabidx   \* loadinfo->strtabidx

vars == <<file, iobuffer, bufincr, heap, exports, nexports, exported,
          registry, deps, call, crashed, shdr, symtabidx, strtabidx>>

\* The section headers of the session and the indices found in them.
sections == <<shdr, symtabidx, strtabidx>>

---------------------------------------------------------------------------
(* Bounds of the model *)

MaxFileLen == 4     \* longest module image, in bytes
MaxBuf == 2         \* largest buffer capacity at a call, and largest increment
MaxSyms == 2        \* most entries of a symbol table section
MaxCalls == 3       \* builds and teardowns made on one module
MaxMods == 2        \* most modules in the registry
MaxSect == 3        \* most sections of a module image (e_shnum)

(* Program constants *)

OK == 0
SYM_NOT_FOUND == 0
SYM_FOUND == 1
ENOENT == 2
ESRCH == 3
EIO == 5
ENOMEM == 12
EINVAL == 22
ENOSYS == 38
SizeofElfSym == 16
SHT_SYMTAB == 2
SHN_UNDEF == 0
SHN_ABS == 65521
SHN_COMMON == 65522
AddrBits == 16

NULL == 0
NUL == 0

\* Byte values: the terminator and two letters.
Bytes == {NUL, 1, 2}

\* A buffer byte that was allocated and never written.
Uninit == -1

Min(a, b) == IF a < b THEN a ELSE b

\* All sequences over S of length lo..hi.
SeqsOf(S, lo, hi) == UNION {[1..n -> S] : n \in lo..hi}

---------------------------------------------------------------------------
(* C strings *)

\* Mutant of HasNul: only the first byte of the chunk is examined.
HasNul_first(chunk) == Len(chunk) >= 1 /\ chunk[1] = NUL

\* memchr(buffer, '\0', n) != NULL over a chunk given as a sequence.
HasNul(chunk) == \E i \in 1..Len(chunk) : chunk[i] = NUL

\* Index (1-based) of the first NUL of s at or after position from, 0 if none.
FirstNul(s, from) ==
    IF \E i \in from..Len(s) : s[i] = NUL
    THEN CHOOSE i \in from..Len(s) : s[i] = NUL /\ \A j \in from..(i - 1) : s[j] # NUL
    ELSE 0

\* The C string that starts at 0-based offset off of s: the bytes before the
\* first NUL.  <<Uninit>> stands for a string that runs off the end of s.
CStrAt(s, off) ==
    LET k == FirstNul(s, off + 1)
    IN  IF k = 0 THEN <<Uninit>> ELSE SubSeq(s, off + 1, k - 1)

---------------------------------------------------------------------------
(* External collaborators of the name reader *)

\* modlib_read(loadinfo, buffer, readlen, offset): the bytes delivered.  A
\* read that reaches past the end of the file delivers nothing there.
modlib_read(f, readlen, offset) ==
    [i \in 1..readlen |-> IF offset + i <= Len(f) THEN f[offset + i] ELSE Uninit]

\* modlib_reallocbuffer(loadinfo, increment): capacity grows, contents kept.
modlib_reallocbuffer(buf, increment) == buf \o [i \in 1..increment |-> Uninit]

\* Copy chunk into buf starting at 0-based index at.
StoreAt(buf, at, chunk) ==
    [i \in 1..Len(buf) |->
        IF i > at /\ i <= at + Len(chunk) THEN chunk[i - at] ELSE buf[i]]

---------------------------------------------------------------------------
(* modlib_symname *)

\* Mutant of symname_advance: one byte of the file is skipped between chunks.
symname_advance_skip(offset, readlen, incr) == offset + incr + 1

\* The file offset of the next chunk after the buffer was grown.
symname_advance(offset, readlen, incr) == offset + incr

\* Mutant of symname_atend: an offset equal to the file length is not taken
\* for the end of the file.
symname_atend_past(offset, want, filelen) ==
    offset + want > filelen /\ filelen < offset

\* The end-of-file test made before a chunk is read: nothing is left to
\* read at offset.
symname_atend(offset, want, filelen) ==
    offset + want > filelen /\ filelen <= offset

\* Mutant of symname_readlen: the read length is not cut at the end of the
\* file.
symname_readlen_whole(offset, want, filelen) == want

\* The number of bytes to read: the room left in the buffer, cut at the end
\* of the file.
symname_readlen(offset, want, filelen) ==
    IF offset + want > filelen THEN filelen - offset ELSE want

\* Mutant of symname_eof: running off the end of the file is a success.
symname_eof_ok == OK

\* What the reader returns at the end of the file.
symname_eof == -EINVAL

\* Mutant of symname_noname: a nameless symbol is reported as a corrupt file.
symname_noname_einval == -EINVAL

\* What the reader returns for a name offset of zero.
symname_noname == -ESRCH

\* One pass of the for (;;) loop and all passes after it.  s carries the
\* locals (offset, bytesread), the buffer, and the trace of reads and grows;
\* readFailAt / growFailAt name the pass whose modlib_read /
\* modlib_reallocbuffer fails (0: none fails).
RECURSIVE symname_loop(_, _, _, _, _)
symname_loop(s, f, incr, readFailAt, growFailAt) ==
    LET filelen == Len(f)
        pass == Len(s.reads) + 1
        want == Len(s.buf) - s.bytesread
        atEnd == symname_atend(s.offset, want, filelen)
        readlen == symname_readlen(s.offset, want, filelen)
        chunk == modlib_read(f, readlen, s.offset)
        rd == [dst |-> s.bytesread, len |-> readlen, off |-> s.offset,
               cap |-> Len(s.buf)]
    IN  IF atEnd THEN [s EXCEPT !.ret = symname_eof]
        ELSE IF readFailAt = pass
        THEN [s EXCEPT !.ret = -EIO, !.reads = Append(s.reads, rd)]
        ELSE IF HasNul(chunk)
        THEN [s EXCEPT !.ret = OK,
                       !.buf = StoreAt(s.buf, s.bytesread, chunk),
                       !.bytesread = s.bytesread + readlen,
                       !.reads = Append(s.reads, rd)]
        ELSE IF growFailAt = pass
        THEN [s EXCEPT !.ret = -ENOMEM,
                       !.buf = StoreAt(s.buf, s.bytesread, chunk),
                       !.bytesread = s.bytesread + readlen,
                       !.reads = Append(s.reads, rd)]
        ELSE symname_loop(
                [s EXCEPT !.buf = modlib_reallocbuffer(
                                      StoreAt(s.buf, s.bytesread, chunk), incr),
                          !.bytesread = s.bytesread + readlen,
                          !.offset = symname_advance(s.offset, readlen, incr),
                          !.reads = Append(s.reads, rd),
                          !.grows = s.grows + 1],
                f, incr, readFailAt, growFailAt)

\* modlib_symname(loadinfo, sym, sh_offset): the buffer afterwards, the
\* return value and the trace.
modlib_symname(buf, f, incr, st_name, sh_offset, readFailAt, growFailAt) ==
    LET s0 == [buf |-> buf, ret |-> OK, offset |-> sh_offset + st_name,
               bytesread |-> 0, reads |-> <<>>, grows |-> 0]
    IN  IF st_name = 0
        THEN [s0 EXCEPT !.ret = symname_noname]
        ELSE symname_loop(s0, f, incr, readFailAt, growFailAt)

---------------------------------------------------------------------------
(* Values of the variables a specification does not use *)

\* n counts the calls made on the module of the export model.
NoCall == [op |-> "none", ret |-> OK, n |-> 0]

\* A session whose section headers play no part.
NoSections ==
    /\ shdr = <<>>
    /\ symtabidx = 0
    /\ strtabidx = 0

IdleSession ==
    /\ heap = <<>>
    /\ exports = NULL
    /\ nexports = 0
    /\ exported = NULL
    /\ registry = <<>>
    /\ deps = {}
    /\ call = NoCall
    /\ crashed = FALSE
    /\ NoSections

---------------------------------------------------------------------------
(* SpecName: a load session that reads symbol names.  The buffer is the    *)
(* session's: it keeps its capacity and contents from one call to the next. *)

\* Module images: byte 0 is the NUL that opens an ELF string table (no name
\* offset reaches it: a name offset of 0 is never read), the rest is free.
Files == {<<NUL>> \o t : t \in SeqsOf(Bytes, 0, MaxFileLen - 1)}

\* What fails in a call of the name reader: nothing, the first or second
\* modlib_read, or the first modlib_reallocbuffer.
NameFaults == {<<0, 0>>, <<1, 0>>, <<2, 0>>, <<0, 1>>}

InitName ==
    /\ file \in Files
    /\ iobuffer \in {[i \in 1..n |-> Uninit] : n \in 1..MaxBuf}
    /\ bufincr \in 1..MaxBuf
    /\ IdleSession

\* One call of modlib_symname on a symbol with name offset st_name.
Symname(st_name, sh_offset, readFailAt, growFailAt) ==
    LET r == modlib_symname(iobuffer, file, bufincr, st_name, sh_offset,
                            readFailAt, growFailAt)
    IN  /\ Len(iobuffer) <= MaxBuf
        /\ iobuffer' = r.buf
        /\ call' = [op |-> "symname", ret |-> r.ret,
                    st_name |-> st_name, sh_offset |-> sh_offset,
                    buflen0 |-> Len(iobuffer),
                    bufkept |-> (r.buf = iobuffer),
                    reads |-> r.reads, grows |-> r.grows,
                    faultfree |-> (readFailAt = 0 /\ growFailAt = 0)]
        /\ UNCHANGED <<sections, file, bufincr, heap, exports, nexports, exported,
                       registry, deps, crashed>>

NextName ==
    \E st_name \in 0..MaxFileLen, sh_offset \in 0..1, flt \in NameFaults :
        Symname(st_name, sh_offset, flt[1], flt[2])

SpecName == InitName /\ [][NextName]_vars

---------------------------------------------------------------------------
(* Claims about the name reader *)

\* The name on disk of the last symname call: the file bytes from
\* sh_offset + st_name up to, not including, the first NUL.
NameOnDisk == CStrAt(file, call.sh_offset + call.st_name)

\* C2: whenever modlib_symname succeeds for a name longer than the buffer
\* capacity it was entered with, the buffer holds from offset 0 exactly the
\* name on disk followed by its terminator, for every file, capacity and
\* increment.
C2_LongNameIsNameOnDisk ==
    (call.op = "symname" /\ call.ret = OK /\ Len(NameOnDisk) > call.buflen0)
        => CStrAt(iobuffer, 0) = NameOnDisk

\* The absolute file offset of the name of the last symname call.
NameOffset == call.sh_offset + call.st_name

\* C21: modlib_symname fails with -ESRCH whenever the name offset is zero,
\* for every string-table offset, file length and buffer state, without
\* reading from the file, growing the buffer or changing its contents.
C21_NamelessIsESRCH ==
    (call.op = "symname" /\ call.st_name = 0)
        => /\ call.ret = -ESRCH
           /\ call.reads = <<>>
           /\ call.grows = 0
           /\ call.bufkept
           /\ Len(iobuffer) = call.buflen0

\* Witness of C21: a nameless symbol was refused although the string table
\* holds a name at its offset and the buffer holds an earlier name.
C21_Witness ==
    /\ call.op = "symname"
    /\ call.st_name = 0
    /\ call.sh_offset = 1
    /\ Len(file) > 2
    /\ file[2] # NUL
    /\ iobuffer[1] # Uninit
    /\ call.ret = -ESRCH

\* C22: modlib_symname fails with -EINVAL, without issuing a read, whenever
\* the string-table offset plus the non-zero name offset is at or beyond
\* the length of the file.
C22_OffsetPastEndIsEINVAL ==
    (call.op = "symname" /\ call.st_name # 0 /\ NameOffset >= Len(file))
        => /\ call.ret = -EINVAL
           /\ call.reads = <<>>
           /\ call.grows = 0
           /\ call.bufkept

\* Witness of C22: the name offset is exactly the length of the file.
C22_Witness ==
    /\ call.op = "symname"
    /\ call.st_name # 0
    /\ NameOffset = Len(file)
    /\ call.ret = -EINVAL
    /\ call.reads = <<>>

\* C23: when the file holds no NUL at or after the name's offset and every
\* read and grow succeeds, modlib_symname ends after finitely many passes
\* (each read starts further in the file, so there are at most as many as
\* bytes left) and returns -EINVAL, never success.
C23_UnterminatedNameIsEINVAL ==
    (/\ call.op = "symname"
     /\ call.st_name # 0
     /\ call.faultfree
     /\ FirstNul(file, NameOffset + 1) = 0)
        => /\ call.ret = -EINVAL
           /\ Len(call.reads) <= Len(file) - Min(NameOffset, Len(file))
           /\ \A i \in 1..Len(call.reads) : call.reads[i].off < Len(file)
           /\ \A i \in 2..Len(call.reads) :
                    call.reads[i].off > call.reads[i - 1].off

\* Witness of C23: the file ends in an unterminated name that took two
\* reads and a grow to exhaust.
C23_Witness ==
    /\ call.op = "symname"
    /\ call.st_name # 0
    /\ call.faultfree
    /\ NameOffset < Len(file)
    /\ FirstNul(file, NameOffset + 1) = 0
    /\ Len(call.reads) >= 2
    /\ call.grows >= 1
    /\ call.ret = -EINVAL

\* C24: when the terminator of the name lies within the first
\* (buffer capacity at entry) bytes from the name's offset, modlib_symname
\* succeeds with exactly one read and no grow, the capacity is unchanged
\* and the buffer holds the name on disk from offset 0.
C24_ShortNameOneRead ==
    (/\ call.op = "symname"
     /\ call.st_name # 0
     /\ call.faultfree
     /\ FirstNul(file, NameOffset + 1) # 0
     /\ FirstNul(file, NameOffset + 1) - NameOffset <= call.buflen0)
        => /\ call.ret = OK
           /\ Len(call.reads) = 1
           /\ call.reads[1].off = NameOffset
           /\ call.grows = 0
           /\ Len(iobuffer) = call.buflen0
           /\ CStrAt(iobuffer, 0) = NameOnDisk

\* Witness of C24: the terminator is the last byte the buffer has room
\* for, after a non-empty name.
C24_Witness ==
    /\ call.op = "symname"
    /\ call.st_name # 0
    /\ call.faultfree
    /\ FirstNul(file, NameOffset + 1) # 0
    /\ FirstNul(file, NameOffset + 1) - NameOffset = call.buflen0
    /\ Len(NameOnDisk) >= 1
    /\ call.ret = OK
    /\ call.grows = 0

\* C31: in every pass of the read loop of modlib_symname the chunk stays
\* inside both bounds: the destination [bytesread, bytesread + readlen) lies
\* within the buffer capacity of that pass and the source
\* [offset, offset + readlen) within the file, for every initial capacity,
\* increment, file length and name offset.
C31_ReadsWithinBounds ==
    call.op = "symname"
        => \A i \in 1..Len(call.reads) :
              LET rd == call.reads[i]
              IN  /\ rd.dst >= 0
                  /\ rd.len >= 0
                  /\ rd.dst + rd.len <= rd.cap
                  /\ rd.off >= 0
                  /\ rd.off + rd.len <= Len(file)

\* Witness of C31: the first read filled the buffer to the last byte and
\* the second, after a grow, was cut at the end of the file.
C31_Witness ==
    /\ call.op = "symname"
    /\ Len(call.reads) >= 2
    /\ call.reads[1].len = call.reads[1].cap
    /\ call.reads[2].off + call.reads[2].len = Len(file)
    /\ call.reads[2].dst + call.reads[2].len < call.reads[2].cap

---------------------------------------------------------------------------
(* modlib_readsym *)

\* The index test that guards the read.
readsym_badindex(index, sh_size) == index < 0 \/ index > (sh_size \div SizeofElfSym)

\* modlib_readsym(loadinfo, index, sym, symtab): the return value and the
\* reads issued; readret is what modlib_read returns if it is called.
modlib_readsym(index, sh_size, sh_offset, readret) ==
    IF readsym_badindex(index, sh_size)
    THEN [ret |-> -EINVAL, reads |-> <<>>]
    ELSE [ret |-> readret,
          reads |-> <<[off |-> sh_offset + SizeofElfSym * index,
                       len |-> SizeofElfSym]>>]

(* SpecRead: calls of the indexed symbol reader on symbol table sections of *)
(* every size up to MaxSyms entries, with and without a trailing partial    *)
(* entry.                                                                   *)

SectionSizes == {SizeofElfSym * n + r : n \in 0..MaxSyms, r \in {0, SizeofElfSym \div 2}}

InitRead ==
    /\ file \in {<<NUL>>}
    /\ iobuffer = <<Uninit>>
    /\ bufincr = 1
    /\ IdleSession

Readsym(index, sh_size, sh_offset, readret) ==
    LET r == modlib_readsym(index, sh_size, sh_offset, readret)
    IN  /\ call' = [op |-> "readsym", ret |-> r.ret, index |-> index,
                    sh_size |-> sh_size, sh_offset |-> sh_offset,
                    readret |-> readret, reads |-> r.reads]
        /\ UNCHANGED <<sections, file, iobuffer, bufincr, heap, exports, nexports,
                       exported, registry, deps, crashed>>

NextRead ==
    \E index \in (-1)..(MaxSyms + 1), sh_size \in SectionSizes,
       sh_offset \in {0, 4 * SizeofElfSym}, readret \in {OK, -EIO} :
        Readsym(index, sh_size, sh_offset, readret)

SpecRead == InitRead /\ [][NextRead]_vars

\* Number of entries of the section of the last readsym call.
EntryCount == call.sh_size \div SizeofElfSym

\* C3: modlib_readsym fails with -EINVAL and reads nothing for every index
\* that is negative or at least the entry count; for every index in
\* 0..count-1 it reads the record at sh_offset + index * entry size and
\* returns the status of that read.
C3_IndexAtOrPastCountRejected ==
    call.op = "readsym" =>
        /\ (call.index < 0 \/ call.index >= EntryCount)
              => (call.ret = -EINVAL /\ call.reads = <<>>)
        /\ (call.index >= 0 /\ call.index < EntryCount)
              => /\ call.ret = call.readret
                 /\ call.reads = <<[off |-> call.sh_offset + call.index * SizeofElfSym,
                                    len |-> SizeofElfSym]>>

---------------------------------------------------------------------------
(* modlib_findsymtab *)

\* Section types: the symbol table type and one other type.
SectionTypes == {SHT_SYMTAB, SHT_SYMTAB + 1}

\* for (i = 1; i < e_shnum; i++) if (shdr[i].sh_type == SHT_SYMTAB) break:
\* the index at which the loop breaks, from i on; 0 if it runs to the end.
RECURSIVE findsymtab_scan(_, _)
findsymtab_scan(sh, i) ==
    IF i >= Len(sh) THEN 0
    ELSE IF sh[i + 1].sh_type = SHT_SYMTAB THEN i
    ELSE findsymtab_scan(sh, i + 1)

\* modlib_findsymtab(loadinfo): the two indices are assigned only when the
\* loop finds a section; the test afterwards reads symtabidx as it is then.
modlib_findsymtab(sh, symidx, stridx) ==
    LET i == findsymtab_scan(sh, 1)
        symtabidx1 == IF i # 0 THEN i ELSE symidx
        strtabidx1 == IF i # 0 THEN sh[i + 1].sh_link ELSE stridx
    IN  [ret |-> IF symtabidx1 = 0 THEN -EINVAL ELSE OK,
         symtabidx |-> symtabidx1, strtabidx |-> strtabidx1]

(* SpecFind: the locator is called on sessions with every section table of *)
(* up to MaxSect sections and every value of the two indices, and may be   *)
(* called again on the session it has just updated.                        *)

SectionTables ==
    SeqsOf([sh_type : SectionTypes, sh_link : 1..2], 0, MaxSect)

InitFind ==
    /\ file = <<NUL>>
    /\ iobuffer = <<Uninit>>
    /\ bufincr = 1
    /\ heap = <<>>
    /\ exports = NULL
    /\ nexports = 0
    /\ exported = NULL
    /\ registry = <<>>
    /\ deps = {}
    /\ call = NoCall
    /\ crashed = FALSE
    /\ shdr \in SectionTables
    /\ symtabidx \in 0..(MaxSect - 1)
    /\ strtabidx \in 0..(MaxSect - 1)

Findsymtab ==
    \E r \in {modlib_findsymtab(shdr, symtabidx, strtabidx)} :
        /\ symtabidx' = r.symtabidx
        /\ strtabidx' = r.strtabidx
        /\ call' = [op |-> "findsymtab", ret |-> r.ret, n |-> 0,
                    symtabidx0 |-> symtabidx, strtabidx0 |-> strtabidx]
        /\ UNCHANGED <<shdr, file, iobuffer, bufincr, heap, exports, nexports,
                       exported, registry, deps, crashed>>

NextFind == Findsymtab

SpecFind == InitFind /\ [][NextFind]_vars

\* The section indices i >= 1 of symbol table type.
SymtabSections == {i \in 1..(Len(shdr) - 1) : shdr[i + 1].sh_type = SHT_SYMTAB}

\* C25: when modlib_findsymtab succeeds, symtabidx is the smallest section
\* index i >= 1 of symbol table type and strtabidx is that section's
\* sh_link; section 0 is never selected and later symbol table sections are
\* ignored.
C25_FirstSymtabRecorded ==
    (call.op = "findsymtab" /\ call.ret = OK)
        => /\ SymtabSections # {}
           /\ symtabidx \in SymtabSections
           /\ \A i \in SymtabSections : symtabidx <= i
           /\ strtabidx = shdr[symtabidx + 1].sh_link

\* C26: modlib_findsymtab fails with -EINVAL whenever no section with index
\* >= 1 has the symbol table type, for every section count and whatever
\* symtabidx held before the call.
C26_NoSymtabIsEINVAL ==
    (call.op = "findsymtab" /\ SymtabSections = {})
        => call.ret = -EINVAL

---------------------------------------------------------------------------
(* The allocator.  heap[p] is the object pointer p names: an array of      *)
(* symtab_s (data: its entries) or a strdup'ed name (data: its bytes);     *)
(* frees counts the lib_free calls it has received.                        *)

lib_malloc(h, kind, data) == Append(h, [kind |-> kind, data |-> data, frees |-> 0])

\* frees saturates at 2: freed more than once.
lib_free(h, p) == IF p = NULL THEN h ELSE [h EXCEPT ![p].frees = Min(@ + 1, 2)]

Live(h, p) == p # NULL /\ h[p].frees = 0

\* The memory p points to has been freed: reading it or freeing it again is
\* undefined behaviour.
Dangling(h, p) == p # NULL /\ h[p].frees > 0

---------------------------------------------------------------------------
(* modlib_freesymtab *)

\* The for loop: lib_free of symbol[i].sym_name for i below count.
RECURSIVE free_names(_, _, _)
free_names(h, entries, count) ==
    IF count = 0 THEN h
    ELSE lib_free(free_names(h, entries, count - 1), entries[count].sym_name)

\* What the function leaves in modp->modinfo.exports.
freesymtab_exports(ptr) == ptr

\* modlib_freesymtab(modp) on the module state m.  When exports points to
\* freed memory the entries read are the stale ones and the frees are double
\* frees; m.ub records that the call went through undefined behaviour.
modlib_freesymtab(m) ==
    IF m.exports # NULL
    THEN LET symbol == m.heap[m.exports].data
             h1 == free_names(m.heap, symbol, m.nexports)
             h2 == lib_free(h1, m.exports)
         IN  [m EXCEPT !.heap = h2,
                       !.exports = freesymtab_exports(m.exports),
                       !.ub = m.ub \/ Dangling(m.heap, m.exports)
                                   \/ \E i \in 1..m.nexports :
                                         Dangling(m.heap, symbol[i].sym_name)]
    ELSE m

---------------------------------------------------------------------------
(* modlib_insertsymtab *)

\* The count of "live" symbols: those with a non-zero name offset.
RECURSIVE CountNamed(_, _)
CountNamed(syms, n) ==
    IF n = 0 THEN 0
    ELSE CountNamed(syms, n - 1) + (IF syms[n].st_name # 0 THEN 1 ELSE 0)

\* Mutant of insert_abort: the array is freed but the module keeps pointing
\* to it.
insert_abort_keep(m, ret) ==
    [m EXCEPT !.heap = lib_free(m.heap, m.exports),
              !.ret = ret]

\* The exit taken when modlib_symname fails for a symbol.
insert_abort(m, ret) ==
    [m EXCEPT !.heap = lib_free(m.heap, m.exports),
              !.exports = NULL,
              !.ret = ret]

\* strdup((char *)loadinfo->iobuffer): the new heap and the pointer, NULL
\* when the allocation fails.
strdup(h, buf, fails) ==
    IF fails THEN [heap |-> h, ptr |-> NULL]
    ELSE [heap |-> lib_malloc(h, "str", CStrAt(buf, 0)), ptr |-> Len(h) + 1]

\* The build loop from symbol i on; ent holds the entries stored so far.
\* e is the environment of the call: the file, the increment, the string
\* table offset and the fault injected (kind, at: the qualifying symbol hit).
RECURSIVE insert_loop(_, _, _, _, _)
insert_loop(m, syms, i, ent, e) ==
    IF i > Len(syms)
    THEN [m EXCEPT !.heap[m.exports].data = ent]
    ELSE IF syms[i].st_name = 0
    THEN insert_loop(m, syms, i + 1, ent, e)
    ELSE LET j == Len(ent) + 1
             hit(kind) == e.fault.kind = kind /\ e.fault.at = j
             r == modlib_symname(m.buf, e.f, e.incr, syms[i].st_name, e.sh_offset,
                                 IF hit("read") THEN 1 ELSE 0,
                                 IF hit("grow") THEN 1 ELSE 0)
             d == strdup(m.heap, r.buf, hit("strdup"))
         IN  IF r.ret < 0
             THEN insert_abort([m EXCEPT !.buf = r.buf,
                                         !.heap[m.exports].data = ent,
                                         !.namefail = j,
                                         !.nameret = r.ret], r.ret)
             ELSE insert_loop(
                     [m EXCEPT !.buf = r.buf, !.heap = d.heap,
                               !.nullname = m.nullname \/ d.ptr = NULL],
                     syms, i + 1,
                     Append(ent, [sym_name |-> d.ptr,
                                  sym_value |-> syms[i].st_value]),
                     e)

\* modlib_insertsymtab(modp, loadinfo, shdr, sym) on the module state m.
modlib_insertsymtab(m, syms, e) ==
    LET m1 == IF m.exports # NULL THEN modlib_freesymtab(m) ELSE m
        symCount == CountNamed(syms, Len(syms))
        mallocfails == e.fault.kind = "malloc"
        h2 == lib_malloc(m1.heap, "array", <<>>)
        m2 == IF mallocfails
              THEN [m1 EXCEPT !.exports = NULL, !.exported = NULL,
                              !.ret = -ENOMEM, !.arrayfail = TRUE]
              ELSE [m1 EXCEPT !.heap = h2, !.exports = Len(h2),
                              !.exported = Len(h2), !.nexports = symCount]
    IN  IF symCount > 0
        THEN IF mallocfails THEN m2 ELSE insert_loop(m2, syms, 1, <<>>, e)
        ELSE m1

---------------------------------------------------------------------------
(* SpecExp: one module whose export table is built, rebuilt and torn down  *)
(* during a load session.                                                  *)

\* The string table of the module: "ab" at 1, "b" at 2, the empty string at 3;
\* the table starts at file offset 0, and offset 4 is past the end of the file.
ExpFile == <<NUL, 1, 2, NUL>>
ExpStrtabOffset == 0

\* Name offsets of the symbols: no name, "ab", the empty string.
NameOffsets == {0, 1, 3}

\* Symbol arrays: every sequence of name offsets of at most MaxSyms symbols.
\* The value of a symbol differs from symbol to symbol: SizeofElfSym * index.
SymArrays ==
    {[i \in 1..Len(names) |->
        [st_name |-> names[i], st_value |-> SizeofElfSym * i]] :
        names \in SeqsOf(NameOffsets, 0, MaxSyms)}

\* What fails in a build: nothing, the array allocation, or for the at-th
\* qualifying symbol its strdup, its first modlib_read or its first
\* modlib_reallocbuffer.
BuildFaults ==
    {[kind |-> "none", at |-> 0], [kind |-> "malloc", at |-> 0]}
    \cup [kind : {"strdup", "read", "grow"}, at : 1..MaxSyms]

\* The objects of the table a module refers to: the array and the names its
\* entries point to.
TableObjects(h, ptr, count) ==
    IF ptr = NULL THEN {}
    ELSE {ptr} \cup ({h[ptr].data[i].sym_name : i \in 1..Min(count, Len(h[ptr].data))}
                      \ {NULL})

\* The module and session state the two functions work on.
ModState ==
    [heap |-> heap, exports |-> exports, nexports |-> nexports,
     exported |-> exported, buf |-> iobuffer, ret |-> OK, ub |-> FALSE,
     namefail |-> 0, nameret |-> OK, nullname |-> FALSE, arrayfail |-> FALSE]

InitExp ==
    /\ file = ExpFile
    /\ iobuffer = [i \in 1..MaxBuf |-> Uninit]
    /\ bufincr = MaxBuf
    /\ IdleSession

\* One call of modlib_insertsymtab.  A call entered with exports pointing to
\* freed memory is modelled here with the outcome "the stale contents are
\* still there and the allocator accepts the second free"; UseFreedCrash is
\* the other outcome.
InsertSymtab(syms, fault) ==
    \E r \in {modlib_insertsymtab(ModState, syms,
                   [f |-> file, incr |-> bufincr, sh_offset |-> ExpStrtabOffset,
                    fault |-> fault])} :
        /\ ~crashed
        /\ heap' = r.heap
        /\ exports' = r.exports
        /\ nexports' = r.nexports
        /\ exported' = r.exported
        /\ iobuffer' = r.buf
        /\ call.n < MaxCalls
        /\ call' = [op |-> "insertsymtab", n |-> call.n + 1, ret |-> r.ret, syms |-> syms,
                    heap0 |-> Len(heap), had |-> exports # NULL,
                    oldleft |-> {p \in TableObjects(heap, exports, nexports) :
                                    r.heap[p].frees = 0},
                    ub |-> r.ub, namefail |-> r.namefail, nameret |-> r.nameret,
                    nullname |-> r.nullname, arrayfail |-> r.arrayfail]
        /\ UNCHANGED <<sections, file, bufincr, registry, deps, crashed>>

\* One call of modlib_freesymtab.
FreeSymtab ==
    \E r \in {modlib_freesymtab(ModState)} :
        /\ ~crashed
        /\ heap' = r.heap
        /\ exports' = r.exports
        /\ call.n < MaxCalls
        /\ call' = [op |-> "freesymtab", n |-> call.n + 1, ret |-> OK, heap0 |-> Len(heap),
                    had |-> exports # NULL,
                    oldleft |-> {p \in TableObjects(heap, exports, nexports) :
                                    r.heap[p].frees = 0},
                    ub |-> r.ub, again |-> (call.op = "freesymtab"),
                    freed |-> {p \in 1..Len(heap) :
                                  r.heap[p].frees # heap[p].frees}]
        /\ UNCHANGED <<sections, file, iobuffer, bufincr, nexports, exported,
                       registry, deps, crashed>>

\* Either function entered with exports pointing to freed memory reads the
\* freed array and frees it again: the program may stop there.
UseFreedCrash ==
    /\ ~crashed
    /\ Dangling(heap, exports)
    /\ crashed' = TRUE
    /\ call' = [op |-> "crash", ret |-> OK, n |-> call.n]
    /\ UNCHANGED <<sections, file, iobuffer, bufincr, heap, exports, nexports, exported,
                   registry, deps>>

NextExp ==
    \/ \E syms \in SymArrays, fault \in BuildFaults : InsertSymtab(syms, fault)
    \/ FreeSymtab
    \/ UseFreedCrash

SpecExp == InitExp /\ [][NextExp]_vars

---------------------------------------------------------------------------
(* Claims about the export table builder and teardown *)

\* The objects the module refers to through its export table.
Owned == TableObjects(heap, exports, nexports)

\* The objects allocated by the last call.
AllocatedByCall == (call.heap0 + 1)..Len(heap)

\* The symbols of the last build that have a name, in table order.
IsNamed(sym) == sym.st_name # 0
Qualifying == SelectSeq(call.syms, IsNamed)

\* C4: over any sequence of builds and teardowns on one module every name
\* string and export array allocated is freed exactly once: none is freed
\* twice, none is left allocated without the module referring to it, and a
\* rebuild has released the whole old table.
C4_EveryAllocationFreedOnce ==
    /\ \A p \in 1..Len(heap) : heap[p].frees <= 1
    /\ \A p \in 1..Len(heap) : heap[p].frees = 0 => p \in Owned
    /\ (call.op = "insertsymtab" /\ call.had) => call.oldleft = {}

\* C5: after modlib_freesymtab returns on a module that had an export table,
\* the names and the array are freed and the module's reference is cleared.
C5_TeardownClearsReference ==
    (call.op = "freesymtab" /\ call.had)
        => (exports = NULL /\ call.oldleft = {})

\* C6: if reading the name of the k-th qualifying symbol fails in
\* modlib_insertsymtab, for any k, the call returns that error and the
\* module is left with no export table attached.
C6_NameFailureDetachesTable ==
    (call.op = "insertsymtab" /\ call.namefail > 0)
        => (call.ret < 0 /\ call.ret = call.nameret /\ exports = NULL)

\* Witness of C6: the name of the second qualifying symbol could not be read
\* during a rebuild over an existing table.
C6_Witness ==
    /\ call.op = "insertsymtab"
    /\ call.had
    /\ call.namefail = 2
    /\ call.ret = -EIO
    /\ exports = NULL

\* C7: when modlib_insertsymtab fails, everything the call allocated (the
\* array and each name already duplicated) has been freed on return.
C7_FailedBuildReleasesAll ==
    (call.op = "insertsymtab" /\ call.ret < 0)
        => \A p \in AllocatedByCall : heap[p].frees >= 1

\* C8: if the array allocation or the duplication of any name fails,
\* modlib_insertsymtab returns an allocation failure, and no table with a
\* null name is left attached to the module.
C8_AllocationFailureReported ==
    (call.op = "insertsymtab" /\ (call.arrayfail \/ call.nullname))
        => /\ call.ret = -ENOMEM
           /\ exports # NULL
                => \A i \in 1..Len(heap[exports].data) :
                      heap[exports].data[i].sym_name # NULL

\* C9: a build from an array with no named symbol succeeds and leaves the
\* module with a present (non-null, allocated) export table of length zero
\* and export count 0, on a fresh module and on a rebuild alike.
C9_NoNamedSymbolsGivesEmptyTable ==
    (call.op = "insertsymtab" /\ Len(Qualifying) = 0)
        => /\ call.ret = OK
           /\ nexports = 0
           /\ Live(heap, exports)
           /\ heap[exports].data = <<>>

\* C10: after a successful build the export count is the number of named
\* symbols, the array has that many entries, and the j-th entry holds the
\* name (as it stands in the string table) and the value of the j-th named
\* symbol in table order.
C10_ExportsMirrorNamedSymbols ==
    (call.op = "insertsymtab" /\ call.ret = OK)
        => /\ nexports = Len(Qualifying)
           /\ Len(Qualifying) > 0
                => /\ Live(heap, exports)
                   /\ Len(heap[exports].data) = Len(Qualifying)
                   /\ \A j \in 1..Len(Qualifying) :
                        LET ent == heap[exports].data[j]
                        IN  /\ ent.sym_value = Qualifying[j].st_value
                            /\ Live(heap, ent.sym_name)
                            /\ heap[ent.sym_name].data =
                                 CStrAt(file, ExpStrtabOffset + Qualifying[j].st_name)

\* C27: after a successful modlib_insertsymtab every entry of the table
\* attached to the module has a name that is neither null nor of length
\* zero, also when a non-zero name offset points at a NUL byte of the string
\* table.
C27_ExportNamesNonEmpty ==
    (call.op = "insertsymtab" /\ call.ret = OK /\ Live(heap, exports))
        => \A i \in 1..Len(heap[exports].data) :
              LET name == heap[exports].data[i].sym_name
              IN  /\ name # NULL
                  /\ heap[name].data # <<>>

\* C28: modlib_freesymtab on a module without a table is a no-op, and a
\* second modlib_freesymtab right after a first one frees nothing.
C28_TeardownIdempotent ==
    (call.op = "freesymtab" /\ (~call.had \/ call.again))
        => call.freed = {}

\* C30: after any sequence of builds and teardowns the export count is the
\* number of entries of the attached array, it is zero when no array is
\* attached, and neither the module's reference nor the session's
\* 'exported' reference points to a freed array.
C30_CountAndReferenceConsistent ==
    /\ exports = NULL => nexports = 0
    /\ exports # NULL
         => (Live(heap, exports) /\ nexports = Len(heap[exports].data))
    /\ exported # NULL => Live(heap, exported)

---------------------------------------------------------------------------
(* External collaborators of the resolver *)

\* symtab_findbyname(symtab, name, nsyms): the index of the first entry of
\* that name, 0 (NULL) when there is none.
symtab_findbyname(symtab, name) ==
    IF \E i \in 1..Len(symtab) : symtab[i].sym_name = name
    THEN CHOOSE i \in 1..Len(symtab) :
            /\ symtab[i].sym_name = name
            /\ \A k \in 1..(i - 1) : symtab[k].sym_name # name
    ELSE NULL

\* modlib_depend(importer, exporter): the edge is recorded, or the call
\* fails and records nothing.
modlib_depend(edges, importer, exporter, fails) ==
    IF fails THEN [ret |-> -ENOMEM, edges |-> edges]
    ELSE [ret |-> OK, edges |-> Append(edges, <<importer, exporter>>)]

---------------------------------------------------------------------------
(* modlib_symcallback and the registry traversal *)

\* A pointer to an export is modelled by the export and where it was found:
\* from is the exporting module's id, BaseCode for the built-in table;
\* NoSymbol is the NULL pointer.
BaseCode == 0
NoSymbol == [from |-> -1, sym_value |-> 0]

\* Mutant of symcallback_found: the callback does not stop the traversal.
symcallback_found_continue == SYM_NOT_FOUND

\* What the callback returns once modlib_depend has succeeded.
symcallback_found == SYM_FOUND

\* Mutant of symcallback_dependfail: a failed modlib_depend is taken for a
\* module that does not export the name.
symcallback_dependfail_ignore(ret) == SYM_NOT_FOUND

\* What the callback returns when modlib_depend has failed: its error.
symcallback_dependfail(ret) == ret

\* modlib_symcallback(modp, arg): x is the mod_exportinfo_s plus the trace
\* (the modules examined and the edges recorded in this call).
modlib_symcallback(mod, x, dependfails) ==
    LET idx == symtab_findbyname(mod.exports, x.name)
        x1 == [x EXCEPT !.symbol = IF idx = NULL THEN NoSymbol
                                   ELSE [from |-> mod.id,
                                         sym_value |-> mod.exports[idx].sym_value],
                        !.visited = Append(x.visited, mod.id)]
        d == modlib_depend(x1.edges, x.modp, mod.id, dependfails)
    IN  IF idx # NULL
        THEN IF d.ret < 0
             THEN [x1 EXCEPT !.ret = symcallback_dependfail(d.ret)]
             ELSE [x1 EXCEPT !.ret = symcallback_found, !.edges = d.edges]
        ELSE [x1 EXCEPT !.ret = SYM_NOT_FOUND]

\* modlib_registry_foreach(callback, arg): the callback is called on each
\* module from the head (newest) on while it returns 0; the last return
\* value is returned.
RECURSIVE modlib_registry_foreach(_, _, _, _)
modlib_registry_foreach(reg, i, x, dependfails) ==
    IF i > Len(reg) \/ x.ret # 0 THEN x
    ELSE modlib_registry_foreach(reg, i + 1,
                                 modlib_symcallback(reg[i], x, dependfails),
                                 dependfails)

---------------------------------------------------------------------------
(* modlib_symvalue *)

\* Addresses (uintptr_t, Elf_Addr) wrap at 2^AddrBits.  The model takes the
\* width of a 16-bit target so that the wrap stays within the integers of
\* the model checker; the arithmetic is the same at every width.
AddrMod == 2 ^ AddrBits

\* Mutant of AddTo: the sum is not reduced to the address width.
AddTo_nowrap(st_value, v) == st_value + v

\* sym->st_value += v in address-width arithmetic.
AddTo(st_value, v) == (st_value + v) % AddrMod

\* The index of the section header a call read: none.
NoSection == -1

\* The result of a call: return value, the symbol's st_value afterwards, the
\* buffer, and the trace: whether modlib_symname was called and what it
\* returned, the edges recorded, the modules examined, whether the built-in
\* table was searched, the export used.
SymvalueResult(ret, value, buf, x, builtin, named, nameret) ==
    [ret |-> ret, st_value |-> value, buf |-> buf, edges |-> x.edges,
     visited |-> x.visited, builtin |-> builtin, symbol |-> x.symbol,
     named |-> named, nameret |-> nameret, shread |-> x.shread]

\* Mutant of symvalue_error_value: an error return clears the value.
symvalue_error_value_cleared(st_value) == 0

\* sym->st_value at an error return: every error return comes before the
\* assignments to it.
symvalue_error_value(st_value) == st_value

\* Mutant of symvalue_namefail: every failure of the name reader is
\* reported as a corrupt file.
symvalue_namefail_einval(ret) == -EINVAL

\* What modlib_symvalue returns when modlib_symname has failed: its error.
symvalue_namefail(ret) == ret

\* Mutant of symvalue_builtin: the base code's table is searched first.
symvalue_builtin_first(symbol, name, builtins) ==
    LET bidx == symtab_findbyname(builtins, name)
    IN  IF bidx = NULL THEN symbol
        ELSE [from |-> BaseCode, sym_value |-> builtins[bidx].sym_value]

\* Mutant of symvalue_builtin: the base code's table is never searched.
symvalue_builtin_none(symbol, name, builtins) == symbol

\* The fallback: if no module exports the name, the base code's table is
\* searched (modlib_getsymtab, symtab_findbyname).
symvalue_builtin(symbol, name, builtins) ==
    LET bidx == symtab_findbyname(builtins, name)
    IN  IF symbol # NoSymbol THEN symbol
        ELSE IF bidx = NULL THEN NoSymbol
        ELSE [from |-> BaseCode, sym_value |-> builtins[bidx].sym_value]

\* Mutant of symvalue_notfound: an unresolved symbol is not an error.
symvalue_notfound_ok == OK

\* What modlib_symvalue returns when no exporter has the name.
symvalue_notfound == -ENOENT

\* case SHN_UNDEF.  e is the environment: registry, built-in table, file,
\* increment, faults.
symvalue_undef(modp, buf, sym, sh_offset, e) ==
    LET r == modlib_symname(buf, e.f, e.incr, sym.st_name, sh_offset,
                            e.readFailAt, e.growFailAt)
        x0 == [name |-> CStrAt(r.buf, 0), modp |-> modp, symbol |-> NoSymbol,
               ret |-> 0, edges |-> <<>>, visited |-> <<>>,
               shread |-> NoSection]
        x == modlib_registry_foreach(e.registry, 1, x0, e.dependfails)
        symbol == symvalue_builtin(x.symbol, x0.name, e.builtins)
        xs == [x EXCEPT !.symbol = symbol]
    IN  IF r.ret < 0
        THEN SymvalueResult(symvalue_namefail(r.ret),
                            symvalue_error_value(sym.st_value), r.buf,
                            [x0 EXCEPT !.name = <<>>], FALSE, TRUE, r.ret)
        ELSE IF x.ret < 0
        THEN SymvalueResult(x.ret, symvalue_error_value(sym.st_value), r.buf,
                            x, FALSE, TRUE, r.ret)
        ELSE IF symbol = NoSymbol
        THEN SymvalueResult(symvalue_notfound,
                            symvalue_error_value(sym.st_value), r.buf, xs, TRUE,
                            TRUE, r.ret)
        ELSE SymvalueResult(OK, AddTo(sym.st_value, symbol.sym_value), r.buf, xs,
                            x.symbol = NoSymbol, TRUE, r.ret)

\* Mutant of symvalue_common: a common symbol is accepted.
symvalue_common_ok == OK

\* case SHN_COMMON: the return value.
symvalue_common == -ENOSYS

\* Mutant of symvalue_abs: an absolute symbol is rebased like a
\* section-relative one.
symvalue_abs_rebased(st_value, sh_addr) == AddTo(st_value, sh_addr[2])

\* case SHN_ABS: st_value already holds the value.
symvalue_abs(st_value, sh_addr) == st_value

\* modlib_symvalue(modp, loadinfo, sym, sh_offset).  e.shdr is the section
\* header table (sh_addr of each section, sections 0..e_shnum-1 stored at
\* 1..e_shnum); an index past the table reads whatever lies there: e.stray.
modlib_symvalue(modp, buf, sym, sh_offset, e) ==
    LET none == [name |-> <<>>, modp |-> modp, symbol |-> NoSymbol, ret |-> 0,
                 edges |-> <<>>, visited |-> <<>>, shread |-> NoSection]
        secbase == IF sym.st_shndx < Len(e.shdr) THEN e.shdr[sym.st_shndx + 1]
                   ELSE e.stray
    IN  CASE sym.st_shndx = SHN_COMMON ->
                SymvalueResult(symvalue_common,
                               symvalue_error_value(sym.st_value), buf, none,
                               FALSE, FALSE, OK)
          [] sym.st_shndx = SHN_ABS ->
                SymvalueResult(OK, symvalue_abs(sym.st_value, e.shdr), buf, none,
                               FALSE, FALSE, OK)
          [] sym.st_shndx = SHN_UNDEF ->
                symvalue_undef(modp, buf, sym, sh_offset, e)
          [] OTHER ->
                SymvalueResult(OK, AddTo(sym.st_value, secbase), buf,
                               [none EXCEPT !.shread = sym.st_shndx], FALSE,
                               FALSE, OK)

---------------------------------------------------------------------------
(* modlib_findglobal *)

\* strcmp(a, b) on strings given as byte sequences: negative, zero or
\* positive as a sorts before, equal to or after b; i is the position
\* compared (the terminator counts as a byte smaller than every other).
RECURSIVE strcmp(_, _, _)
strcmp(a, b, i) ==
    LET ca == IF i <= Len(a) THEN a[i] ELSE NUL
        cb == IF i <= Len(b) THEN b[i] ELSE NUL
    IN  IF ca # cb THEN ca - cb
        ELSE IF ca = NUL THEN 0
        ELSE strcmp(a, b, i + 1)

\* Mutant of findEP: only the first byte of the names is compared.
findEP_first(c1, c2) == strcmp(SubSeq(c1.epName, 1, 1), SubSeq(c2.epName, 1, 1), 1)

\* findEP(c1, c2): the comparison function of the binary search.
findEP(c1, c2) == strcmp(c1.epName, c2.epName, 1)

\* bsearch(key, base, nmemb, size, compar) over base[lo..hi]: the index of
\* an element that compares equal to key, 0 (NULL) if there is none.
RECURSIVE bsearch(_, _, _, _)
bsearch(key, base, lo, hi) ==
    IF lo > hi THEN NULL
    ELSE LET mid == (lo + hi) \div 2
             c == findEP(key, base[mid])
         IN  IF c = 0 THEN mid
             ELSE IF c < 0 THEN bsearch(key, base, lo, mid - 1)
             ELSE bsearch(key, base, mid + 1, hi)

\* globalTable[] and nGlobals: "a", "ab" and "bb", sorted by name.
globalTable ==
    <<[epName |-> <<1>>, epAddr |-> 4096],
      [epName |-> <<1, 2>>, epAddr |-> 4100],
      [epName |-> <<2, 2>>, epAddr |-> 4104]>>

\* modlib_findglobal(modp, loadinfo, shdr, sym): sh_offset is the offset of
\* the string table the section's sh_link names.  The result carries the
\* address returned, the buffer, the name reader's return value and the
\* trace of registry use: the function has none.
modlib_findglobal(buf, sym, sh_offset, e) ==
    LET r == modlib_symname(buf, e.f, e.incr, sym.st_name, sh_offset,
                            e.readFailAt, e.growFailAt)
        key == [epName |-> CStrAt(r.buf, 0), epAddr |-> NULL]
        res == bsearch(key, globalTable, 1, Len(globalTable))
    IN  [ret |-> IF r.ret < 0 THEN NULL
                 ELSE IF res # NULL THEN globalTable[res].epAddr
                 ELSE NULL,
         buf |-> r.buf, nameret |-> r.ret, edges |-> <<>>, visited |-> <<>>]

---------------------------------------------------------------------------
(* SpecRes: a module being loaded resolves its symbols against a registry  *)
(* of loaded modules and the built-in export table.                        *)

\* The string table of the module being loaded: "a" at 1, the empty string
\* at 2, "b" at 3; 5 is past the end of the file.
ResFile == <<NUL, 1, NUL, 2, NUL>>
ResStrtabOffset == 0
ResNames == {<<1>>, <<2>>}

\* The export of name by the module with id: modules export different values.
ExportOf(id, name) == [sym_name |-> name, sym_value |-> 256 * id + name[1]]

\* The export table of module id exporting the names of the set S, in
\* byte order.
TableOf(id, S) ==
    LET a == IF <<1>> \in S THEN <<ExportOf(id, <<1>>)>> ELSE <<>>
        b == IF <<2>> \in S THEN <<ExportOf(id, <<2>>)>> ELSE <<>>
    IN  a \o b

\* Registries: n modules, loaded in the order of their ids 1..n and kept
\* newest first, each exporting any subset of the names.
Registries ==
    UNION {{[i \in 1..n |-> [id |-> n + 1 - i, exports |-> TableOf(n + 1 - i, pick[i])]] :
               pick \in [1..n -> SUBSET ResNames]} : n \in 0..MaxMods}

\* The built-in export table: the base code exports "b" only.
Builtins == <<[sym_name |-> <<2>>, sym_value |-> 8]>>

\* Section header table of the module being loaded: sh_addr of sections 0..2.
ResShdr == <<0, 4096, 8192>>

InitRes ==
    /\ file = ResFile
    /\ iobuffer = <<Uninit>>
    /\ bufincr = 1
    /\ heap = <<>>
    /\ exports = NULL
    /\ nexports = 0
    /\ exported = NULL
    /\ registry \in Registries
    /\ deps = {}
    /\ call = NoCall
    /\ crashed = FALSE
    /\ NoSections

\* The module being loaded: it is not in the registry yet.
Loading == Len(registry) + 1

\* The call about to be made repeats the last one: the same symbol entry
\* (name offset, value, section index) is resolved again, and nothing failed
\* in either call.
Repeats(sym, flt, dependfails) ==
    /\ call.op = "symvalue"
    /\ call.sym = sym
    /\ call.faultfree
    /\ flt = <<0, 0>>
    /\ ~dependfails

\* One call of modlib_symvalue on a symbol of the module being loaded.  The
\* record of the call keeps the outcome of the call before it when it
\* repeats that call.
Symvalue(sym, flt, dependfails, stray) ==
    /\ ~crashed
    /\ \E r \in {modlib_symvalue(Loading, iobuffer, sym, ResStrtabOffset,
                    [f |-> file, incr |-> bufincr, registry |-> registry,
                     builtins |-> Builtins, shdr |-> ResShdr, stray |-> stray,
                     readFailAt |-> flt[1], growFailAt |-> flt[2],
                     dependfails |-> dependfails])} :
           /\ iobuffer' = r.buf
           /\ deps' = deps \cup {r.edges[i] : i \in 1..Len(r.edges)}
           /\ call' = [op |-> "symvalue", n |-> 0, ret |-> r.ret, sym |-> sym,
                       st_value |-> r.st_value, edges |-> r.edges,
                       visited |-> r.visited, builtin |-> r.builtin,
                       symbol |-> r.symbol, bufkept |-> (r.buf = iobuffer),
                       named |-> r.named, nameret |-> r.nameret,
                       shread |-> r.shread,
                       dependfails |-> dependfails,
                       faultfree |-> (flt = <<0, 0>> /\ ~dependfails),
                       repeat |-> Repeats(sym, flt, dependfails),
                       prevret |-> IF Repeats(sym, flt, dependfails)
                                   THEN call.ret ELSE OK,
                       prevvalue |-> IF Repeats(sym, flt, dependfails)
                                     THEN call.st_value ELSE 0]
           /\ UNCHANGED <<sections, file, bufincr, heap, exports, nexports, exported,
                          registry, crashed>>

\* Values of a symbol before resolution: a small addend and one that wraps.
ResValues == {4, AddrMod - 4}

\* At most one thing fails in a call: a read or a grow of the name reader,
\* or modlib_depend.
ResFaults ==
    {<<flt[1], flt[2], FALSE>> : flt \in NameFaults} \cup {<<0, 0, TRUE>>}

\* An undefined symbol: every name offset up to the end of the file.
ResolveUndef ==
    \E st_name \in 0..Len(ResFile), st_value \in ResValues, flt \in ResFaults :
        Symvalue([st_name |-> st_name, st_value |-> st_value, st_shndx |-> SHN_UNDEF],
                 <<flt[1], flt[2]>>, flt[3], 0)

\* An absolute, common or section-relative symbol.
ResolveDefined ==
    \E st_name \in {0, 1}, st_value \in ResValues,
       st_shndx \in {SHN_ABS, SHN_COMMON} \cup 1..(Len(ResShdr) - 1) :
        Symvalue([st_name |-> st_name, st_value |-> st_value, st_shndx |-> st_shndx],
                 <<0, 0>>, FALSE, 0)

\* A symbol whose section index is a reserved one past the section table:
\* the sh_addr read there is whatever the memory holds.
ResolveReserved ==
    \E st_value \in ResValues, stray \in {0, 4096} :
        Symvalue([st_name |-> 0, st_value |-> st_value, st_shndx |-> SHN_ABS - 1],
                 <<0, 0>>, FALSE, stray)

\* One call of modlib_findglobal on a symbol of the module being loaded.
FindGlobal ==
    \E st_name \in 0..Len(ResFile), flt \in NameFaults :
        \E r \in {modlib_findglobal(iobuffer, [st_name |-> st_name],
                     ResStrtabOffset,
                     [f |-> file, incr |-> bufincr,
                      readFailAt |-> flt[1], growFailAt |-> flt[2]])} :
            /\ ~crashed
            /\ iobuffer' = r.buf
            /\ deps' = deps \cup {r.edges[i] : i \in 1..Len(r.edges)}
            /\ call' = [op |-> "findglobal", n |-> 0, ret |-> r.ret,
                        sym |-> [st_name |-> st_name], nameret |-> r.nameret,
                        edges |-> r.edges, visited |-> r.visited,
                        bufkept |-> (r.buf = iobuffer)]
            /\ UNCHANGED <<sections, file, bufincr, heap, exports, nexports,
                           exported, registry, crashed>>

\* The read of a section header past the table touches memory the section
\* table does not own: on a target with memory protection the load faults.
ReservedFault ==
    /\ ~crashed
    /\ crashed' = TRUE
    /\ call' = [op |-> "crash", ret |-> OK, n |-> 0]
    /\ UNCHANGED <<sections, file, iobuffer, bufincr, heap, exports, nexports, exported,
                   registry, deps>>

NextRes ==
    \/ ResolveUndef
    \/ ResolveDefined
    \/ ResolveReserved
    \/ ReservedFault
    \/ FindGlobal

SpecRes == InitRes /\ [][NextRes]_vars

---------------------------------------------------------------------------
(* Claims about the resolver *)

\* The name the symbol of the last symvalue call has in the string table.
RequestedName == CStrAt(file, ResStrtabOffset + call.sym.st_name)

\* Positions in the registry (1 is the newest module) of the modules that
\* export the requested name.
Exporters ==
    {i \in 1..Len(registry) :
        \E k \in 1..Len(registry[i].exports) :
            registry[i].exports[k].sym_name = RequestedName}

Newest(S) == CHOOSE i \in S : \A k \in S : i <= k

\* The value module mod exports under name.
ValueIn(mod, name) ==
    LET k == CHOOSE k \in 1..Len(mod.exports) : mod.exports[k].sym_name = name
    IN  mod.exports[k].sym_value

\* An undefined symbol whose name was read was resolved by the last call.
UndefCall ==
    /\ call.op = "symvalue"
    /\ call.sym.st_shndx = SHN_UNDEF
    /\ call.sym.st_name # 0
    /\ ResStrtabOffset + call.sym.st_name < Len(file)

\* C1: when two or more loaded modules export the requested name, a
\* successful modlib_symvalue on an undefined symbol uses the export of the
\* most recently loaded of them and records exactly one edge, from the
\* resolving module to that module; no module older than it is examined, and
\* no edge to an older module is recorded whatever the call returns.
C1_NewestExporterWins ==
    (UndefCall /\ Cardinality(Exporters) >= 2)
        => LET winner == registry[Newest(Exporters)]
           IN  /\ \A i \in 1..Len(call.edges) : call.edges[i] = <<Loading, winner.id>>
               /\ \A i \in 1..Len(call.visited) : call.visited[i] >= winner.id
               /\ call.ret = OK
                    => /\ call.symbol.from = winner.id
                       /\ call.st_value =
                            (call.sym.st_value + ValueIn(winner, RequestedName)) % AddrMod
                       /\ call.edges = <<<<Loading, winner.id>>>>
                       /\ <<Loading, winner.id>> \in deps

\* Witness of C1: two modules export the requested name under different
\* values and the call resolved the symbol.
C1_Witness ==
    /\ UndefCall
    /\ call.ret = OK
    /\ Exporters = {1, 2}
    /\ ValueIn(registry[1], RequestedName) # ValueIn(registry[2], RequestedName)
    /\ call.symbol.from = registry[1].id
    /\ call.edges = <<<<Loading, registry[1].id>>>>

\* An undefined symbol whose name the reader delivered.
NamedCall == UndefCall /\ call.named /\ call.nameret = OK

\* The requested name is in the base code's export table.
InBuiltins == \E k \in 1..Len(Builtins) : Builtins[k].sym_name = RequestedName

\* The value the base code exports under the requested name.
BuiltinValue ==
    LET k == CHOOSE k \in 1..Len(Builtins) : Builtins[k].sym_name = RequestedName
    IN  Builtins[k].sym_value

\* The ids of the modules a traversal examines up to the registry position
\* last, newest first.
IdsUpTo(last) == [i \in 1..last |-> registry[i].id]

\* C11: when no loaded module exports the requested name and the built-in
\* table does, modlib_symvalue on an undefined symbol succeeds with the
\* built-in value added to the symbol's value and records no dependency
\* edge.
C11_BuiltinFallbackNoEdge ==
    (NamedCall /\ Exporters = {} /\ InBuiltins)
        => /\ call.ret = OK
           /\ call.builtin
           /\ call.symbol.from = BaseCode
           /\ call.st_value = (call.sym.st_value + BuiltinValue) % AddrMod
           /\ call.edges = <<>>

\* Witness of C11: loaded modules were searched, none exports the name, and
\* the symbol was resolved from the built-in table.
C11_Witness ==
    /\ NamedCall
    /\ Len(registry) >= 1
    /\ Exporters = {}
    /\ InBuiltins
    /\ call.visited = IdsUpTo(Len(registry))
    /\ call.ret = OK
    /\ call.symbol.from = BaseCode

\* C12: when neither a loaded module nor the built-in table exports the
\* requested name, modlib_symvalue on an undefined symbol fails with -ENOENT
\* and records no dependency edge.
C12_UnresolvedIsENOENT ==
    (NamedCall /\ Exporters = {} /\ ~InBuiltins)
        => /\ call.ret = -ENOENT
           /\ call.edges = <<>>

\* Witness of C12: the modules and the built-in table were searched for a
\* name none of them exports.
C12_Witness ==
    /\ NamedCall
    /\ Len(registry) >= 1
    /\ RequestedName # <<>>
    /\ Exporters = {}
    /\ ~InBuiltins
    /\ call.visited = IdsUpTo(Len(registry))
    /\ call.builtin
    /\ call.ret = -ENOENT

\* C13: the built-in table is consulted only after the module search ended
\* with "not found": when a loaded module and the built-in table both export
\* the requested name, the built-in table is not searched and a successful
\* call uses the module's value and records the edge to that module.
C13_ModulesBeforeBuiltins ==
    (NamedCall /\ Exporters # {} /\ InBuiltins)
        => LET winner == registry[Newest(Exporters)]
           IN  /\ ~call.builtin
               /\ call.symbol.from # BaseCode
               /\ call.ret = OK
                    => /\ call.symbol.from = winner.id
                       /\ call.st_value =
                            (call.sym.st_value + ValueIn(winner, RequestedName)) % AddrMod
                       /\ call.edges = <<<<Loading, winner.id>>>>

\* Witness of C13: a module and the built-in table export the name under
\* different values and the call resolved the symbol.
C13_Witness ==
    /\ NamedCall
    /\ Exporters # {}
    /\ InBuiltins
    /\ ValueIn(registry[Newest(Exporters)], RequestedName) # BuiltinValue
    /\ call.ret = OK
    /\ call.symbol.from = registry[Newest(Exporters)].id

\* The error of a failed modlib_depend.
DependError == modlib_depend(<<>>, Loading, Loading, TRUE).ret

\* C14: if modlib_depend fails for the first module that exports the
\* requested name, modlib_symvalue returns that error: the symbol is not
\* resolved, no older module is examined, the built-in table is not
\* searched and no edge is recorded.
C14_DependFailureAborts ==
    (NamedCall /\ Exporters # {} /\ call.dependfails)
        => /\ call.ret = DependError
           /\ call.ret < 0
           /\ call.st_value = call.sym.st_value
           /\ call.visited = IdsUpTo(Newest(Exporters))
           /\ ~call.builtin
           /\ call.edges = <<>>

\* Witness of C14: the newest of two modules exports the name, which the
\* built-in table exports too, and the registration of the edge failed.
C14_Witness ==
    /\ NamedCall
    /\ Len(registry) = 2
    /\ Newest(Exporters \cup {2}) = 1
    /\ InBuiltins
    /\ call.dependfails
    /\ call.ret = DependError
    /\ call.visited = <<registry[1].id>>

NothingSearched ==
    /\ ~call.named
    /\ call.bufkept
    /\ call.visited = <<>>
    /\ ~call.builtin
    /\ call.edges = <<>>

\* C16: a symbol in the common section makes modlib_symvalue fail with
\* -ENOSYS whatever its name offset and value, without reading the name,
\* traversing the registry, recording an edge or changing the value.
C16_CommonIsENOSYS ==
    (call.op = "symvalue" /\ call.sym.st_shndx = SHN_COMMON)
        => /\ call.ret = -ENOSYS
           /\ call.st_value = call.sym.st_value
           /\ NothingSearched

\* Witness of C16: a common symbol whose name a loaded module exports was
\* rejected.
C16_Witness ==
    /\ call.op = "symvalue"
    /\ call.sym.st_shndx = SHN_COMMON
    /\ call.sym.st_name # 0
    /\ Exporters # {}
    /\ call.ret = -ENOSYS

\* C17: an absolute symbol makes modlib_symvalue succeed and leaves the
\* symbol's value, the read buffer and the dependency edges unchanged.
C17_AbsoluteUntouched ==
    (call.op = "symvalue" /\ call.sym.st_shndx = SHN_ABS)
        => /\ call.ret = OK
           /\ call.st_value = call.sym.st_value
           /\ NothingSearched

\* Witness of C17: an absolute symbol whose name a loaded module exports
\* was resolved to the value it had.
C17_Witness ==
    /\ call.op = "symvalue"
    /\ call.sym.st_shndx = SHN_ABS
    /\ call.sym.st_name # 0
    /\ Exporters # {}
    /\ call.ret = OK
    /\ call.st_value = AddrMod - 4

\* The value of the export that matches the requested name: the newest
\* exporting module's, else the built-in table's.
MatchedValue ==
    IF Exporters # {} THEN ValueIn(registry[Newest(Exporters)], RequestedName)
    ELSE BuiltinValue

\* C18: after a successful resolution of an undefined symbol the symbol's
\* value is its value before the call plus the matched export's value, in
\* address-width arithmetic, for a match in a module and in the built-in
\* table alike.
C18_ValueIsAddendPlusExport ==
    (NamedCall /\ call.ret = OK)
        => /\ call.symbol.sym_value = MatchedValue
           /\ call.st_value = (call.sym.st_value + MatchedValue) % AddrMod

\* Witness of C18: the sum wrapped around the address width.
C18_Witness ==
    /\ NamedCall
    /\ call.ret = OK
    /\ call.sym.st_value + MatchedValue >= AddrMod
    /\ call.st_value = call.sym.st_value + MatchedValue - AddrMod

\* The sentinel section indices.
Sentinels == {SHN_UNDEF, SHN_ABS, SHN_COMMON}

\* C19: for every section index that is not a sentinel modlib_symvalue
\* succeeds and the symbol's value becomes its previous value plus the base
\* address of the section with that index, with no name read, no registry
\* traversal and no dependency edge.  (An index has a section only if it is
\* below the section count.)
C19_SectionRelativeAddsBase ==
    /\ ~crashed
    /\ (call.op = "symvalue" /\ call.sym.st_shndx \notin Sentinels)
        => /\ call.sym.st_shndx < Len(ResShdr)
           /\ call.ret = OK
           /\ call.st_value =
                (call.sym.st_value + ResShdr[call.sym.st_shndx + 1]) % AddrMod
           /\ NothingSearched

\* C20: for an undefined symbol every failure of modlib_symname is returned
\* by modlib_symvalue with the same error code, -ESRCH being returned for a
\* zero name offset and for nothing else, and then the registry is not
\* traversed, the built-in table is not searched and no edge is recorded.
C20_NameFailurePropagated ==
    (call.op = "symvalue" /\ call.sym.st_shndx = SHN_UNDEF /\ call.nameret < 0)
        => /\ call.ret = call.nameret
           /\ (call.ret = -ESRCH) <=> (call.sym.st_name = 0)
           /\ call.st_value = call.sym.st_value
           /\ call.visited = <<>>
           /\ ~call.builtin
           /\ call.edges = <<>>

\* Witness of C20: a nameless undefined symbol was refused with -ESRCH while
\* loaded modules were there to search.
C20_Witness ==
    /\ call.op = "symvalue"
    /\ call.sym.st_shndx = SHN_UNDEF
    /\ call.sym.st_name = 0
    /\ Len(registry) >= 1
    /\ call.nameret = -ESRCH
    /\ call.ret = -ESRCH
    /\ call.visited = <<>>

\* The positions of globalTable that hold the requested name.
GlobalMatches == {k \in 1..Len(globalTable) : globalTable[k].epName = RequestedName}

\* C29: modlib_findglobal returns the address of the globalTable element
\* whose name is the symbol's name when the table has one and NULL
\* otherwise, also when the name cannot be read; it examines no loaded
\* module and records no dependency edge.
C29_FindGlobalByName ==
    call.op = "findglobal"
        => /\ call.visited = <<>>
           /\ call.edges = <<>>
           /\ IF call.nameret = OK /\ GlobalMatches # {}
              THEN \E k \in GlobalMatches : call.ret = globalTable[k].epAddr
              ELSE call.ret = NULL

\* Witness of C29: the name was found in globalTable while a loaded module
\* exports it too.
C29_Witness ==
    /\ call.op = "findglobal"
    /\ call.nameret = OK
    /\ GlobalMatches # {}
    /\ Exporters # {}
    /\ call.ret = globalTable[1].epAddr
    /\ call.edges = <<>>
    /\ deps = {}


\* C32: whenever modlib_symvalue returns an error (-ENOSYS, -ESRCH, -EINVAL,
\* a read or grow failure, a failure of modlib_depend, -ENOENT) the symbol's
\* st_value is what it was before the call.
C32_ErrorLeavesValue ==
    (call.op = "symvalue" /\ call.ret < 0)
        => call.st_value = call.sym.st_value

\* Witness of C32: a module exporting the name was found, with a non-zero
\* value, the registration of the edge failed and the value is untouched.
C32_Witness ==
    /\ NamedCall
    /\ Exporters # {}
    /\ call.dependfails
    /\ call.ret < 0
    /\ call.symbol.sym_value # 0
    /\ call.sym.st_value # 0
    /\ call.st_value = call.sym.st_value

\* C33: modlib_symvalue indexes the section header array only with an index
\* below the section count: for a symbol whose section index is not a
\* sentinel and is at or beyond the section count no section header is
\* read (and the load does not fault on such a read).
C33_SectionIndexInRange ==
    /\ ~crashed
    /\ call.op = "symvalue"
         => (call.shread = NoSection \/ call.shread < Len(ResShdr))

=============================================================================
